---- MODULE Spec2Model ----
(***************************************************************************)
(* dirwatch: the Manager (process supervisor) and the driver loop of       *)
(* main(), as a state machine.                                             *)
(*                                                                         *)
(* All Manager code runs in the main thread.  The main thread executes     *)
(* main()'s loop; the SIGCHLD handler installed by main() calls            *)
(* manager.handle_sigchld() directly, so a handler frame is pushed on top  *)
(* of whatever the main thread is executing, between any two steps, and    *)
(* runs until it returns (or is itself pre-empted by another handler).     *)
(* SIGINT/SIGTERM raise KeyboardInterrupt in the frame that is executing.  *)
(* The fswatch monitor thread only calls event.set().                      *)
(***************************************************************************)
EXTENDS Naturals, Sequences, FiniteSets, TLC

\* Number of event.set() calls the monitor thread makes in a run.
MaxSets == 2

\* Number of SIGCHLD handler frames that may be nested on the main thread.
MaxDepth == 2

\* Python's None for Manager._current_process and for frame locals.
None == 0

VARIABLES
    kill,        \* Manager._kill
    current,     \* Manager._current_process: None or the index of a child
    terminated,  \* Manager._process_terminated
    pending,     \* Manager._pending_modification
    stack,       \* main thread: <<main frame, handler frames...>>
    children,    \* every child spawned by Popen, in spawn order
    sigchld,     \* SIGCHLD tripped, Python handler not yet dispatched
    event,       \* threading.Event of main()
    exc,         \* exception that ended the process, "none" if none
    nSets,       \* history: event.set() calls made so far
    burst,       \* history: event.set() calls made since the latest event.clear()
    hmCalls,     \* history: handle_modification calls made so far
    lastHm,      \* history: the latest handle_modification call, at call and return
    lastHe,      \* history: the handle_exit call
    interrupted  \* history: KeyboardInterrupt was caught by main()

vars == <<kill, current, terminated, pending, stack, children, sigchld,
          event, exc, nSets, burst, hmCalls, lastHm, lastHe, interrupted>>

manager == <<kill, current, terminated, pending>>
history == <<nSets, burst, hmCalls, lastHm, lastHe, interrupted>>

----------------------------------------------------------------------------
\* Frames and control flow of the main thread

Frame(op, pc) == [op |-> op, pc |-> pc, proc |-> None]

Depth == Len(stack)

Top == stack[Depth]

Main == stack[1]

Alive == Main.op # "dead"

\* The executing frame is at program point pc.
At(pc) == Alive /\ Top.pc = pc

Goto(pc) == [stack EXCEPT ![Depth].pc = pc]

\* Return from the operation of the executing frame: a handler frame is
\* popped; handle_modification returns into the loop of main(); handle_exit
\* returns into the except clause of main(), which then returns.
Return ==
    IF Depth > 1 THEN SubSeq(stack, 1, Depth - 1)
    ELSE IF Top.op = "hm" THEN <<Frame("hm", "hm_ret")>>
    ELSE <<Frame("main", "he_done")>>

\* An exception other than KeyboardInterrupt is caught nowhere: it unwinds
\* every frame and ends the process.
Crashed == <<Frame("dead", "crashed")>>

Running(c) == c # None /\ children[c].st = "running"

\* A child: its state, and the number of termination signals that
\* handle_modification has sent to its process group.
NewChild == [st |-> "running", hmTerms |-> 0]

\* os.killpg(pid, SIGTERM) sent to child c, by handle_exit or by
\* _check_pending_modification.
Signalled(c) ==
    IF Top.op = "he"
    THEN children
    ELSE [children EXCEPT ![c].hmTerms = @ + 1]

\* handle_exit has sent the signal to child c.
ExitSignalled(c) ==
    IF Top.op = "he"
    THEN [lastHe EXCEPT !.sig = c]
    ELSE lastHe

----------------------------------------------------------------------------
Init ==
    /\ kill \in BOOLEAN
    /\ current = None
    /\ terminated = FALSE
    /\ pending = FALSE
    /\ stack = <<Frame("main", "loop_call")>>
    /\ children = <<>>
    /\ sigchld = FALSE
    /\ event = FALSE
    /\ exc = "none"
    /\ nSets = 0
    /\ burst = 0
    /\ hmCalls = 0
    /\ lastHm = [n0 |-> 0, cur |-> None, run |-> FALSE, k |-> 0,
                 ret |-> FALSE, retRun |-> FALSE, sets |-> 0, at |-> None]
    /\ lastHe = [cur |-> None, run |-> FALSE, sig |-> None]
    /\ interrupted = FALSE

----------------------------------------------------------------------------
\* main(): the driver loop

\* manager.handle_modification() is called from the loop.  lastHm.k counts
\* the consecutive calls made while the same recorded child runs, lastHm.sets
\* the event.set() calls made before the call.
loop_call ==
    /\ At("loop_call")
    /\ stack' = <<Frame("hm", "hm_set")>>
    /\ hmCalls' = hmCalls + 1
    /\ lastHm' = [n0 |-> Len(children), cur |-> current, run |-> Running(current),
                  k |-> IF ~Running(current) THEN 0
                        ELSE IF current = lastHm.cur THEN lastHm.k + 1 ELSE 1,
                  ret |-> FALSE, retRun |-> FALSE, sets |-> nSets, at |-> None]
    /\ UNCHANGED <<manager, children, sigchld, event, exc, nSets, burst, lastHe, interrupted>>

\* handle_modification has returned; the loop goes on to event.wait().
hm_return ==
    /\ At("hm_ret")
    /\ stack' = <<Frame("main", "ev_wait")>>
    /\ lastHm' = [lastHm EXCEPT !.ret = TRUE, !.retRun = Running(lastHm.cur)]
    /\ UNCHANGED <<manager, children, sigchld, event, exc, nSets, burst, hmCalls, lastHe, interrupted>>

\* Mutation: event.wait() returns although the event was never set.
ev_wait_nonblocking ==
    /\ At("ev_wait")
    /\ stack' = Goto("ev_clear")
    /\ UNCHANGED <<manager, children, sigchld, event, exc, history>>

\* event.wait() returns once the event is set.
ev_wait ==
    /\ At("ev_wait")
    /\ event
    /\ stack' = Goto("ev_clear")
    /\ UNCHANGED <<manager, children, sigchld, event, exc, history>>

\* Mutation: the event counts its set() calls and clear() takes one of them.
ev_clear_counting ==
    /\ At("ev_clear")
    /\ event' = (burst >= 2)
    /\ burst' = 0
    /\ stack' = Goto("loop_call")
    /\ UNCHANGED <<manager, children, sigchld, exc, nSets, hmCalls, lastHm, lastHe, interrupted>>

\* event.clear(), then the loop starts over.
ev_clear ==
    /\ At("ev_clear")
    /\ event' = FALSE
    /\ burst' = 0
    /\ stack' = Goto("loop_call")
    /\ UNCHANGED <<manager, children, sigchld, exc, nSets, hmCalls, lastHm, lastHe, interrupted>>

----------------------------------------------------------------------------
\* Manager.handle_modification

\* self._pending_modification = True.  lastHm.at is the child recorded when
\* the call sets the flag.
hm_set ==
    /\ At("hm_set")
    /\ pending' = TRUE
    /\ lastHm' = [lastHm EXCEPT !.at = current]
    /\ stack' = Goto("cpm_pending")
    /\ UNCHANGED <<kill, current, terminated, children, sigchld, event, exc,
                   nSets, burst, hmCalls, lastHe, interrupted>>

----------------------------------------------------------------------------
\* Manager._check_pending_modification

\* if self._pending_modification:
cpm_pending ==
    /\ At("cpm_pending")
    /\ stack' = IF pending THEN Goto("cpm_current") ELSE Return
    /\ UNCHANGED <<manager, children, sigchld, event, exc, history>>

\* Mutation: with no child recorded the pending modification is left alone.
cpm_current_nostart ==
    /\ At("cpm_current")
    /\ stack' = IF current = None THEN Return ELSE Goto("cpm_kill")
    /\ UNCHANGED <<manager, children, sigchld, event, exc, history>>

\* if self._current_process is None: ... elif ...
cpm_current ==
    /\ At("cpm_current")
    /\ stack' = IF current = None THEN Goto("cpm_clrpend") ELSE Goto("cpm_kill")
    /\ UNCHANGED <<manager, children, sigchld, event, exc, history>>

\* Mutation: the pending modification is not consumed before the start.
cpm_clrpend_keep ==
    /\ At("cpm_clrpend")
    /\ stack' = Goto("cpm_clrterm")
    /\ UNCHANGED <<manager, children, sigchld, event, exc, history>>

\* self._pending_modification = False
cpm_clrpend ==
    /\ At("cpm_clrpend")
    /\ pending' = FALSE
    /\ stack' = Goto("cpm_clrterm")
    /\ UNCHANGED <<kill, current, terminated, children, sigchld, event, exc, history>>

\* self._process_terminated = False; self._start_process()
cpm_clrterm ==
    /\ At("cpm_clrterm")
    /\ terminated' = FALSE
    /\ stack' = Goto("sp_assert")
    /\ UNCHANGED <<kill, current, pending, children, sigchld, event, exc, history>>

\* elif self._kill and not self._process_terminated:
cpm_kill ==
    /\ At("cpm_kill")
    /\ stack' = IF kill /\ ~terminated THEN Goto("cpm_setterm") ELSE Return
    /\ UNCHANGED <<manager, children, sigchld, event, exc, history>>

\* self._process_terminated = True; self._terminate_process()
cpm_setterm ==
    /\ At("cpm_setterm")
    /\ terminated' = TRUE
    /\ stack' = Goto("tp_assert")
    /\ UNCHANGED <<kill, current, pending, children, sigchld, event, exc, history>>

----------------------------------------------------------------------------
\* Manager._start_process

\* assert self._current_process is None
sp_assert ==
    /\ At("sp_assert")
    /\ IF current = None
       THEN stack' = Goto("sp_popen") /\ exc' = exc
       ELSE stack' = Crashed /\ exc' = "AssertionError"
    /\ UNCHANGED <<manager, children, sigchld, event, history>>

\* subprocess.Popen(self._command, start_new_session=True): the child runs,
\* the handle is still only a value of the frame.
sp_popen ==
    /\ At("sp_popen")
    /\ children' = Append(children, NewChild)
    /\ stack' = [stack EXCEPT ![Depth].pc = "sp_store",
                              ![Depth].proc = Len(children) + 1]
    /\ UNCHANGED <<manager, sigchld, event, exc, history>>

\* self._current_process = <the Popen object>
sp_store ==
    /\ At("sp_store")
    /\ current' = Top.proc
    /\ stack' = Return
    /\ UNCHANGED <<kill, terminated, pending, children, sigchld, event, exc, history>>

----------------------------------------------------------------------------
\* Manager._terminate_process

\* assert self._current_process is not None
tp_assert ==
    /\ At("tp_assert")
    /\ IF current # None
       THEN stack' = Goto("tp_kill") /\ exc' = exc
       ELSE stack' = Crashed /\ exc' = "AssertionError"
    /\ UNCHANGED <<manager, children, sigchld, event, history>>

\* os.killpg(self._current_process.pid, signal.SIGTERM), PermissionError
\* suppressed.  handle_exit goes on to its wait, the other callers return.
\* The process group of a child that was already reaped may be gone
\* (ProcessLookupError, which is not suppressed) or may still have members.
tp_kill ==
    /\ At("tp_kill")
    /\ \/ /\ current = None
          /\ stack' = Crashed /\ exc' = "AttributeError"
          /\ UNCHANGED <<children, lastHe>>
       \/ /\ current # None /\ children[current].st # "reaped"
          /\ children' = Signalled(current)
          /\ lastHe' = ExitSignalled(current)
          /\ stack' = IF Top.op = "he" THEN Goto("he_load") ELSE Return
          /\ exc' = exc
       \/ /\ current # None /\ children[current].st = "reaped"
          /\ UNCHANGED <<children, lastHe>>
          /\ \/ stack' = Crashed /\ exc' = "ProcessLookupError"
             \/ /\ stack' = IF Top.op = "he" THEN Goto("he_load") ELSE Return
                /\ exc' = exc
    /\ UNCHANGED <<manager, sigchld, event, nSets, burst, hmCalls, lastHm, interrupted>>

----------------------------------------------------------------------------
\* Manager.handle_sigchld and Manager._reap_process

\* Mutation: handle_sigchld reaps without looking for a recorded child.
hs_check_always ==
    /\ At("hs_check")
    /\ stack' = Goto("rp_assert")
    /\ UNCHANGED <<manager, children, sigchld, event, exc, history>>

\* if self._current_process is not None:
hs_check ==
    /\ At("hs_check")
    /\ stack' = IF current # None THEN Goto("rp_assert") ELSE Return
    /\ UNCHANGED <<manager, children, sigchld, event, exc, history>>

\* assert self._current_process is not None
rp_assert ==
    /\ At("rp_assert")
    /\ IF current # None
       THEN stack' = Goto("rp_wait") /\ exc' = exc
       ELSE stack' = Crashed /\ exc' = "AssertionError"
    /\ UNCHANGED <<manager, children, sigchld, event, history>>

\* The blocking wait of handle_exit holds the Popen object's waitpid lock.
WaitLocked(c) == Main.pc = "he_blocked" /\ Main.proc = c

\* self._current_process.wait(0): returns when the child was reaped before,
\* reaps it when it has exited, raises TimeoutExpired (suppressed, the
\* handler returns) when it still runs or when the waitpid lock is taken.
rp_wait ==
    /\ At("rp_wait")
    /\ IF current = None
       THEN /\ stack' = Crashed /\ exc' = "AttributeError"
            /\ children' = children
       ELSE /\ exc' = exc
            /\ IF children[current].st = "reaped"
               THEN stack' = Goto("rp_rc") /\ children' = children
               ELSE IF children[current].st = "exited" /\ ~WaitLocked(current)
               THEN /\ stack' = Goto("rp_rc")
                    /\ children' = [children EXCEPT ![current].st = "reaped"]
               ELSE stack' = Return /\ children' = children
    /\ UNCHANGED <<manager, sigchld, event, history>>

\* returncode = self._current_process.returncode; if returncode: the exit
\* status of the command is zero or not.
rp_rc ==
    /\ At("rp_rc")
    /\ IF current # None
       THEN /\ \E returncode \in {0, 1} :
                 stack' = IF returncode # 0 THEN Goto("rp_log_fail") ELSE Goto("rp_log_ok")
            /\ exc' = exc
       ELSE stack' = Crashed /\ exc' = "AttributeError"
    /\ UNCHANGED <<manager, children, sigchld, event, history>>

\* Mutation: a command that failed is not followed by the re-evaluation.
rp_log_fail_stop ==
    /\ At("rp_log_fail")
    /\ current' = None
    /\ stack' = Return
    /\ UNCHANGED <<kill, terminated, pending, children, sigchld, event, exc, history>>

\* logging.log(level, f"Command failed with exit code {returncode}.")
rp_log_fail ==
    /\ At("rp_log_fail")
    /\ stack' = Goto("rp_clear")
    /\ UNCHANGED <<manager, children, sigchld, event, exc, history>>

\* logging.log(level, "Command completed successfully.")
rp_log_ok ==
    /\ At("rp_log_ok")
    /\ stack' = Goto("rp_clear")
    /\ UNCHANGED <<manager, children, sigchld, event, exc, history>>

\* Mutation: the handle is cleared without re-evaluating pending work.
rp_clear_norecheck ==
    /\ At("rp_clear")
    /\ current' = None
    /\ stack' = Return
    /\ UNCHANGED <<kill, terminated, pending, children, sigchld, event, exc, history>>

\* self._current_process = None; self._check_pending_modification()
rp_clear ==
    /\ At("rp_clear")
    /\ current' = None
    /\ stack' = Goto("cpm_pending")
    /\ UNCHANGED <<kill, terminated, pending, children, sigchld, event, exc, history>>

----------------------------------------------------------------------------
\* Manager.handle_exit

\* if self._current_process is not None:
he_check ==
    /\ At("he_check")
    /\ stack' = IF current # None THEN Goto("tp_assert") ELSE Return
    /\ UNCHANGED <<manager, children, sigchld, event, exc, history>>

\* self._current_process.wait(): the attribute is read again
he_load ==
    /\ At("he_load")
    /\ IF current # None
       THEN /\ stack' = [stack EXCEPT ![Depth].pc = "he_wait",
                                      ![Depth].proc = current]
            /\ exc' = exc
       ELSE stack' = Crashed /\ exc' = "AttributeError"
    /\ UNCHANGED <<manager, children, sigchld, event, history>>

\* Popen.wait() without timeout: returns at once when the child was reaped
\* before, else takes the waitpid lock and blocks in waitpid.
he_wait ==
    /\ At("he_wait")
    /\ stack' = IF children[Top.proc].st = "reaped" THEN Return ELSE Goto("he_blocked")
    /\ UNCHANGED <<manager, children, sigchld, event, exc, history>>

\* waitpid returns when the child has exited; the child is reaped.
he_blocked ==
    /\ At("he_blocked")
    /\ children[Top.proc].st = "exited"
    /\ children' = [children EXCEPT ![Top.proc].st = "reaped"]
    /\ stack' = Return
    /\ UNCHANGED <<manager, sigchld, event, exc, history>>

\* main() returns after handle_exit and the interpreter exits.
main_return ==
    /\ At("he_done")
    /\ stack' = <<Frame("dead", "done")>>
    /\ UNCHANGED <<manager, children, sigchld, event, exc, history>>

----------------------------------------------------------------------------
\* Signals delivered to the main thread

\* signal.signal(SIGCHLD, lambda signal, frame: manager.handle_sigchld()):
\* the handler is called on top of the executing frame.
SigchldHandler ==
    /\ Alive
    /\ sigchld
    /\ Depth - 1 < MaxDepth
    /\ sigchld' = FALSE
    /\ stack' = Append(stack, Frame("hs", "hs_check"))
    /\ UNCHANGED <<manager, children, event, exc, history>>

\* KeyboardInterrupt (SIGINT, or SIGTERM through default_int_handler) raised
\* while main() is inside its try block: every frame above main() unwinds
\* and the except clause calls manager.handle_exit().
InterruptInLoop ==
    /\ Alive
    /\ Main.op \in {"main", "hm"}
    /\ Main.pc # "he_done"
    /\ stack' = <<Frame("he", "he_check")>>
    /\ interrupted' = TRUE
    /\ lastHe' = [cur |-> current, run |-> Running(current), sig |-> None]
    /\ UNCHANGED <<manager, children, sigchld, event, exc, nSets, burst, hmCalls, lastHm>>

\* KeyboardInterrupt raised once main() has left its try block: it
\* propagates to entry_point, which exits.
InterruptInExit ==
    /\ Alive
    /\ Main.op = "he" \/ Main.pc = "he_done"
    /\ stack' = Crashed
    /\ exc' = "KeyboardInterrupt"
    /\ UNCHANGED <<manager, children, sigchld, event, history>>

----------------------------------------------------------------------------
\* Environment

\* The monitor thread's callback calls on_modification, i.e. event.set().
\* Once main() has left its loop nothing reads the event any more.
MonitorSet ==
    /\ Alive
    /\ ~interrupted
    /\ nSets < MaxSets
    /\ event' = TRUE
    /\ nSets' = nSets + 1
    /\ burst' = burst + 1
    /\ UNCHANGED <<manager, stack, children, sigchld, exc, hmCalls, lastHm, lastHe, interrupted>>

\* A child exits: it becomes a zombie and SIGCHLD is raised.
ChildExit ==
    /\ Alive
    /\ \E c \in 1..Len(children) :
          /\ children[c].st = "running"
          /\ children' = [children EXCEPT ![c].st = "exited"]
    /\ sigchld' = TRUE
    /\ UNCHANGED <<manager, stack, event, exc, history>>

\* A child is stopped or continued: SIGCHLD is raised, nothing has exited.
ChildStopCont ==
    /\ Alive
    /\ \E c \in 1..Len(children) : children[c].st = "running"
    /\ sigchld' = TRUE
    /\ UNCHANGED <<manager, stack, children, event, exc, history>>

----------------------------------------------------------------------------
Next ==
    \/ loop_call \/ hm_return \/ ev_wait \/ ev_clear
    \/ hm_set
    \/ cpm_pending \/ cpm_current \/ cpm_clrpend \/ cpm_clrterm
    \/ cpm_kill \/ cpm_setterm
    \/ sp_assert \/ sp_popen \/ sp_store
    \/ tp_assert \/ tp_kill
    \/ hs_check \/ rp_assert \/ rp_wait \/ rp_rc \/ rp_log_fail \/ rp_log_ok \/ rp_clear
    \/ he_check \/ he_load \/ he_wait \/ he_blocked \/ main_return
    \/ SigchldHandler \/ InterruptInLoop \/ InterruptInExit
    \/ MonitorSet \/ ChildExit \/ ChildStopCont

Spec == Init /\ [][Next]_vars

----------------------------------------------------------------------------
\* Properties

\* No operation of the Manager is executing and main() is inside its loop.
Idle == Alive /\ Depth = 1 /\ Main.pc \in {"loop_call", "ev_wait", "ev_clear"}

\* Children spawned since the latest handle_modification call was made.
StartedSinceHm == Len(children) - lastHm.n0

Unreaped == {c \in 1..Len(children) : children[c].st # "reaped"}

\* C1: at most one child started by the Manager is not yet reaped, at any
\* time and for every interleaving of the operations and the SIGCHLD handler.
AtMostOneChild == Cardinality(Unreaped) <= 1

\* C2: a handle_modification call made while _current_process is None starts
\* exactly one child: never more than one before the next call, and exactly
\* one from the return of the call on, also after that child exited and was
\* reaped.
NoMissedChange ==
    (hmCalls >= 1 /\ lastHm.cur = None) =>
        /\ StartedSinceHm <= 1
        /\ lastHm.ret => StartedSinceHm = 1

NoMissedChangeWitness ==
    /\ Idle /\ lastHm.ret
    /\ lastHm.cur = None
    /\ StartedSinceHm = 1
    /\ current = None
    /\ children[Len(children)].st = "reaped"

KillIdempotence ==
    kill => \A c \in 1..Len(children) : children[c].hmTerms <= 1

\* C5: with kill-mode, a handle_modification call made while the recorded
\* child runs, and returning while it still runs, has sent it the termination
\* signal and leaves _pending_modification true; handle_modification signals
\* that child once only, no child is started before it is reaped, and once it
\* is reaped and the Manager is idle exactly one child has been started since.
KillRestart ==
    (kill /\ lastHm.run /\ lastHm.retRun) =>
        /\ children[lastHm.cur].hmTerms = 1
        /\ StartedSinceHm <= 1
        /\ children[lastHm.cur].st # "reaped" => (StartedSinceHm = 0 /\ pending)
        /\ (Idle /\ children[lastHm.cur].st = "reaped") => StartedSinceHm = 1

\* C6: as long as the monitor never calls event.set(), handle_modification is
\* called once and one child is started; its exit and reaping start no other.
StartupGuarantee ==
    nSets = 0 =>
        /\ hmCalls <= 1
        /\ Len(children) <= 1
        /\ (Idle /\ Main.pc = "ev_wait") => (hmCalls = 1 /\ Len(children) = 1)

StartupGuaranteeWitness ==
    /\ nSets = 0
    /\ Idle /\ Main.pc = "ev_wait"
    /\ Len(children) = 1
    /\ children[1].st = "reaped"
    /\ current = None

\* C7: when handle_exit was called while the recorded child ran and has
\* returned, that child has exited and no child of the Manager is running.
ShutdownDrains ==
    (Alive /\ Main.pc = "he_done" /\ lastHe.run) =>
        \A c \in 1..Len(children) : children[c].st # "running"

\* C8: once main() has caught KeyboardInterrupt no child is started.
NoStartAfterShutdown ==
    [][interrupted => Len(children') = Len(children)]_vars

\* C9: handle_sigchld executes only while neither handle_modification nor
\* handle_exit is in progress, and never twice at once.
SerializedOperations ==
    Depth > 1 => (Depth = 2 /\ Main.pc \in {"loop_call", "ev_wait", "ev_clear", "he_done"})

\* C10: when handle_exit starts, every running child that was spawned is the
\* one recorded in _current_process.
InterruptAtomicity ==
    (Alive /\ Depth = 1 /\ Main.pc = "he_check") =>
        \A c \in 1..Len(children) : children[c].st = "running" => current = c

\* C11: whenever no Manager operation is in progress, _process_terminated is
\* true only if a child is recorded in _current_process.
TerminatedOnlyIfRunning ==
    Idle => (terminated => current # None)

\* C12: no operation of the Manager fails: the assertion of _terminate_process
\* always holds and handle_exit always has a process to wait for, so the
\* process is never ended by an AssertionError or an AttributeError.
OperationsNeverFail ==
    exc \notin {"AssertionError", "AttributeError"}

\* A step of the main thread that neither pushes a handler frame nor raises
\* KeyboardInterrupt: the executing frame moves on, returns or fails.
FrameStep ==
    /\ stack' # stack
    /\ Len(stack') <= Depth
    /\ interrupted' = interrupted
    /\ exc' # "KeyboardInterrupt"

\* C13: once a child's exit has been reaped, the step that follows the read
\* of the exit status is the same for a zero and a non-zero status: it leaves
\* _current_process, _pending_modification and _process_terminated as they
\* are, starts no child, and goes on to clear the handle and re-evaluate.
ExitStatusIndependence ==
    [][(Alive /\ Top.pc \in {"rp_log_fail", "rp_log_ok"} /\ FrameStep)
         => /\ stack' = Goto("rp_clear")
            /\ manager' = manager
            /\ children' = children]_vars

ExitStatusIndependenceWitness ==
    /\ Alive
    /\ Top.pc = "rp_log_fail"
    /\ pending
    /\ children[current].st = "reaped"

\* C14: a handle_sigchld call that finds no child recorded, or whose wait(0)
\* finds the recorded child still running, returns in that step: the Manager
\* fields are unchanged, no child is started and no signal is sent.
SpuriousSigchldNoOp ==
    [][(/\ Alive
        /\ Top.op = "hs"
        /\ \/ Top.pc = "hs_check" /\ current = None
           \/ Top.pc = "rp_wait" /\ Running(current)
        /\ FrameStep)
         => /\ stack' = SubSeq(stack, 1, Depth - 1)
            /\ manager' = manager
            /\ children' = children
            /\ lastHe' = lastHe
            /\ exc' = exc]_vars

SpuriousSigchldNoOpWitness ==
    /\ Alive
    /\ Top.op = "hs"
    /\ Top.pc = "rp_wait"
    /\ Running(current)
    /\ pending

\* C15: an event.set() made since the latest handle_modification call began
\* finds the loop of main() running, with the event still set or the next
\* call about to be made, unless main() was interrupted.
NoLostWakeup ==
    (nSets > lastHm.sets /\ ~interrupted)
        => (Alive /\ (event \/ Main.pc = "loop_call"))

\* C16: event.wait() returns only when event.set() was called since the
\* latest event.clear(): the set() calls made before a clear() are all
\* consumed by it and cause one handle_modification call.
WakeupCoalescing ==
    [][(Alive /\ Main.pc = "ev_wait" /\ Alive' /\ Main'.pc = "ev_clear")
         => burst >= 1]_vars

WakeupCoalescingWitness ==
    /\ Idle
    /\ Main.pc = "ev_wait"
    /\ nSets = 2
    /\ hmCalls = 2
    /\ ~event

\* C18: the termination signal that a handle_modification call sends goes to
\* the child that was recorded when that call set _pending_modification.
KillHitsStaleChild ==
    [][\A c \in 1..Len(children) :
          children'[c].hmTerms > children[c].hmTerms => c = lastHm.at]_vars

\* C17: the Manager is never left with an exited child recorded in
\* _current_process while no SIGCHLD is pending or being handled, which is a
\* state it does not leave without a further event from outside.
ExitedChildIsReaped ==
    ~(/\ Idle
      /\ ~sigchld
      /\ current # None
      /\ children[current].st = "exited")

\* C19: whenever no Manager operation is in progress, a pending modification
\* has a recorded child to wait for.
PendingHasRun ==
    Idle => (pending => current # None)

PendingHasRunWitness ==
    /\ Idle /\ lastHm.ret
    /\ pending
    /\ current # None
    /\ children[current].st = "exited"
    /\ sigchld

\* C20: the number of children started never exceeds the number of
\* handle_modification calls made.
NoDuplicatedInvocation ==
    Len(children) <= hmCalls

====
